---------------------------- MODULE Spec2Model ----------------------------
(* Model of "Assignment 1/create-dataset.py": process_data and the        *)
(* __main__ entry point.  A table is a sequence of columns; a column is   *)
(* a record [name, vals].  Column names and string cells are sequences of *)
(* one-character strings so that str.startswith, str.replace and the `in` *)
(* substring test are computed character by character.                    *)
EXTENDS Integers, Sequences, FiniteSets, TLC

(* ---------------- bounds of the explored inputs ---------------- *)
NRows == 2
MaxNum == 2

(* ---------------- literals of process_data ---------------- *)
(* the list with "default=1" typed as a second "default=0" *)
target_columns_dup == <<
    "age", "job=housemaid", "job=services", "job=admin.",
    "job=blue-collar", "job=technician", "job=retired", "job=management",
    "job=unemployed", "job=self-employed", "job=unknown", "job=entrepreneur",
    "job=student", "marital=married", "marital=single", "marital=divorced",
    "marital=unknown", "education=basic.4y", "education=high.school", "education=basic.6y",
    "education=basic.9y", "education=professional.course", "education=unknown", "education=university.degree",
    "education=illiterate", "default=0", "default=unknown", "default=0",
    "housing=0", "housing=1", "housing=unknown", "loan=0",
    "loan=1", "loan=unknown", "contact=cellular", "month=may",
    "month=jun", "month=jul", "month=aug", "month=oct",
    "month=nov", "month=dec", "month=mar", "month=apr",
    "month=sep", "day_of_week=mon", "day_of_week=tue", "day_of_week=wed",
    "day_of_week=thu", "day_of_week=fri", "duration", "campaign",
    "pdays", "previous", "poutcome=nonexistent", "poutcome=failure",
    "poutcome=success", "emp.var.rate", "cons.price.idx", "cons.conf.idx",
    "euribor3m", "nr.employed", "class" >>

target_columns == <<
    "age", "job=housemaid", "job=services", "job=admin.",
    "job=blue-collar", "job=technician", "job=retired", "job=management",
    "job=unemployed", "job=self-employed", "job=unknown", "job=entrepreneur",
    "job=student", "marital=married", "marital=single", "marital=divorced",
    "marital=unknown", "education=basic.4y", "education=high.school", "education=basic.6y",
    "education=basic.9y", "education=professional.course", "education=unknown", "education=university.degree",
    "education=illiterate", "default=0", "default=unknown", "default=1",
    "housing=0", "housing=1", "housing=unknown", "loan=0",
    "loan=1", "loan=unknown", "contact=cellular", "month=may",
    "month=jun", "month=jul", "month=aug", "month=oct",
    "month=nov", "month=dec", "month=mar", "month=apr",
    "month=sep", "day_of_week=mon", "day_of_week=tue", "day_of_week=wed",
    "day_of_week=thu", "day_of_week=fri", "duration", "campaign",
    "pdays", "previous", "poutcome=nonexistent", "poutcome=failure",
    "poutcome=success", "emp.var.rate", "cons.price.idx", "cons.conf.idx",
    "euribor3m", "nr.employed", "class" >>

numeric_cols == <<
    <<"a","g","e">>,
    <<"d","u","r","a","t","i","o","n">>,
    <<"c","a","m","p","a","i","g","n">>,
    <<"p","d","a","y","s">>,
    <<"p","r","e","v","i","o","u","s">>,
    <<"e","m","p",".","v","a","r",".","r","a","t","e">>,
    <<"c","o","n","s",".","p","r","i","c","e",".","i","d","x">>,
    <<"c","o","n","s",".","c","o","n","f",".","i","d","x">>,
    <<"e","u","r","i","b","o","r","3","m">>,
    <<"n","r",".","e","m","p","l","o","y","e","d">> >>

categorical_cols == <<
    <<"j","o","b">>,
    <<"m","a","r","i","t","a","l">>,
    <<"e","d","u","c","a","t","i","o","n">>,
    <<"d","e","f","a","u","l","t">>,
    <<"h","o","u","s","i","n","g">>,
    <<"l","o","a","n">>,
    <<"c","o","n","t","a","c","t">>,
    <<"m","o","n","t","h">>,
    <<"d","a","y","_","o","f","_","w","e","e","k">>,
    <<"p","o","u","t","c","o","m","e">> >>

(* a literal left behind by an edit of the list: "contact=cellular" is missing *)
expected_header_stale == 
    "age,job=housemaid,job=services,job=admin.,job=blue-collar,job=technician,job=retired,job=management,job=unemployed,job=self-employed,job=unknown,job=entrepreneur,job=student,marital=married,marital=single,marital=divorced,marital=unknown,education=basic.4y,education=high.school,education=basic.6y,education=basic.9y,education=professional.course,education=unknown,education=university.degree,education=illiterate,default=0,default=unknown,default=1,housing=0,housing=1,housing=unknown,loan=0,loan=1,loan=unknown,month=may,month=jun,month=jul,month=aug,month=oct,month=nov,month=dec,month=mar,month=apr,month=sep,day_of_week=mon,day_of_week=tue,day_of_week=wed,day_of_week=thu,day_of_week=fri,duration,campaign,pdays,previous,poutcome=nonexistent,poutcome=failure,poutcome=success,emp.var.rate,cons.price.idx,cons.conf.idx,euribor3m,nr.employed,class"

expected_header == 
    "age,job=housemaid,job=services,job=admin.,job=blue-collar,job=technician,job=retired,job=management,job=unemployed,job=self-employed,job=unknown,job=entrepreneur,job=student,marital=married,marital=single,marital=divorced,marital=unknown,education=basic.4y,education=high.school,education=basic.6y,education=basic.9y,education=professional.course,education=unknown,education=university.degree,education=illiterate,default=0,default=unknown,default=1,housing=0,housing=1,housing=unknown,loan=0,loan=1,loan=unknown,contact=cellular,month=may,month=jun,month=jul,month=aug,month=oct,month=nov,month=dec,month=mar,month=apr,month=sep,day_of_week=mon,day_of_week=tue,day_of_week=wed,day_of_week=thu,day_of_week=fri,duration,campaign,pdays,previous,poutcome=nonexistent,poutcome=failure,poutcome=success,emp.var.rate,cons.price.idx,cons.conf.idx,euribor3m,nr.employed,class"

(* Characters that occur in the modelled names, in code-point order. *)
Alphabet == <<"-",".","0","1","3","4","6","9","=","_","a","b","c","d","e","f","g","h","i","j","k","l","m","n","o","p","r","s","t","u","v","w","x","y">>

(* ---------------- sequences and strings ---------------- *)
Range(s) == { s[i] : i \in 1..Len(s) }

NoDuplicates(s) == \A i, j \in 1..Len(s) : s[i] = s[j] => i = j

(* str.startswith *)
StartsWith(s, p) == Len(s) >= Len(p) /\ SubSeq(s, 1, Len(p)) = p

(* str.find, 1-based; 0 when sub does not occur *)
Find(s, sub) ==
    LET hits == { i \in 1..(Len(s) - Len(sub) + 1) : SubSeq(s, i, i + Len(sub) - 1) = sub }
    IN  IF hits = {} THEN 0 ELSE CHOOSE i \in hits : \A j \in hits : i <= j

(* sub in s *)
Contains(s, sub) == Find(s, sub) # 0

(* str.replace(old, new, count); count = -1 replaces every occurrence *)
RECURSIVE Replace(_, _, _, _)
Replace(s, old, new, count) ==
    IF count = 0 \/ Find(s, old) = 0 THEN s
    ELSE LET i == Find(s, old)
         IN  SubSeq(s, 1, i - 1) \o new
               \o Replace(SubSeq(s, i + Len(old), Len(s)), old, new, count - 1)

(* the Python string spelled by a sequence of characters *)
RECURSIVE ToStr(_)
ToStr(s) == IF s = <<>> THEN "" ELSE Head(s) \o ToStr(Tail(s))

(* sep.join(names) *)
RECURSIVE Join(_, _)
Join(names, sep) ==
    IF names = <<>> THEN ""
    ELSE IF Len(names) = 1 THEN names[1]
    ELSE names[1] \o sep \o Join(Tail(names), sep)

CharRank(c) == CHOOSE i \in 1..Len(Alphabet) : Alphabet[i] = c

(* a < b in Python's string order *)
RECURSIVE StrLess(_, _)
StrLess(a, b) ==
    IF b = <<>> THEN FALSE
    ELSE IF a = <<>> THEN TRUE
    ELSE IF Head(a) = Head(b) THEN StrLess(Tail(a), Tail(b))
    ELSE CharRank(Head(a)) < CharRank(Head(b))

(* sorted(set of strings) *)
RECURSIVE Sorted(_)
Sorted(S) ==
    IF S = {} THEN <<>>
    ELSE LET m == CHOOSE x \in S : \A y \in S \ {x} : StrLess(x, y)
         IN  <<m>> \o Sorted(S \ {m})

(* ---------------- cells and tables ---------------- *)
(* A cell is a number n/d, a string s, or a missing value (NaN). *)
Num(n, d) == [k |-> "num", n |-> n, d |-> d, s |-> <<>>]
Str(s) == [k |-> "str", n |-> 0, d |-> 1, s |-> s]
NaN == [k |-> "nan", n |-> 0, d |-> 1, s |-> <<>>]

Column(name, vals) == [name |-> name, vals |-> vals]

Columns(t) == [i \in 1..Len(t) |-> t[i].name]

HasColumn(t, name) == \E i \in 1..Len(t) : t[i].name = name

(* df[name]: the first column of that name *)
Col(t, name) == t[CHOOSE i \in 1..Len(t) : t[i].name = name /\ \A j \in 1..(i - 1) : t[j].name # name]

NumRows(t) == IF t = <<>> THEN 0 ELSE Len(t[1].vals)

(* ---------------- 2. read and prepare ---------------- *)
(* df.rename(columns={'y': 'class'}) *)
rename_label(t) ==
    [i \in 1..Len(t) |-> IF t[i].name = <<"y">> THEN Column(<<"c","l","a","s","s">>, t[i].vals) ELSE t[i]]

(* Series.map({'yes': 1, 'no': 0}): any other cell becomes missing *)
map_class(vals) ==
    [i \in 1..Len(vals) |->
        IF vals[i] = Str(<<"y","e","s">>) THEN Num(1, 1)
        ELSE IF vals[i] = Str(<<"n","o">>) THEN Num(0, 1)
        ELSE NaN]

prepare(t) ==
    LET r == rename_label(t)
    IN  [i \in 1..Len(r) |->
            IF r[i].name = <<"c","l","a","s","s">> THEN Column(r[i].name, map_class(r[i].vals)) ELSE r[i]]

(* ---------------- 3. min-max normalisation ---------------- *)
min_val(vals) == CHOOSE m \in { vals[i].n : i \in 1..Len(vals) } : \A i \in 1..Len(vals) : m <= vals[i].n

max_val(vals) == CHOOSE m \in { vals[i].n : i \in 1..Len(vals) } : \A i \in 1..Len(vals) : m >= vals[i].n

(* the loop body without the max != min test *)
normalize_column_unguarded(vals) ==
    [i \in 1..Len(vals) |-> Num(vals[i].n - min_val(vals), max_val(vals) - min_val(vals))]

(* the body of the loop for one column: (v - min) / (max - min), or 0.0 *)
normalize_column(vals) ==
    IF max_val(vals) # min_val(vals)
    THEN [i \in 1..Len(vals) |-> Num(vals[i].n - min_val(vals), max_val(vals) - min_val(vals))]
    ELSE [i \in 1..Len(vals) |-> Num(0, 1)]

(* for col in numeric_cols[k..]: if col in df.columns: df[col] = ... *)
RECURSIVE normalize(_, _)
normalize(t, k) ==
    IF k > Len(numeric_cols) THEN t
    ELSE normalize(
           [i \in 1..Len(t) |->
               IF t[i].name = numeric_cols[k]
               THEN Column(t[i].name, normalize_column(t[i].vals))
               ELSE t[i]],
           k + 1)

(* ---------------- 4. one-hot encoding ---------------- *)
(* the distinct non-missing values of a column, sorted *)
levels(vals) == Sorted({ vals[i].s : i \in { j \in 1..Len(vals) : vals[j].k = "str" } })

(* the indicator columns of one encoded column, dtype=int *)
dummies(prefix, vals) ==
    LET lv == levels(vals)
    IN  [j \in 1..Len(lv) |->
            Column(prefix \o <<"_">> \o lv[j],
                   [i \in 1..Len(vals) |-> Num(IF vals[i] = Str(lv[j]) THEN 1 ELSE 0, 1)])]

RECURSIVE passthrough(_, _)
passthrough(t, columns) ==
    IF t = <<>> THEN <<>>
    ELSE (IF Head(t).name \in Range(columns) THEN <<>> ELSE <<Head(t)>>)
           \o passthrough(Tail(t), columns)

RECURSIVE encoded(_, _, _)
encoded(t, columns, k) ==
    IF k > Len(columns) THEN <<>>
    ELSE dummies(columns[k], Col(t, columns[k]).vals) \o encoded(t, columns, k + 1)

(* data[columns] raises KeyError when a requested column is absent *)
get_dummies_raises(t, columns) == \E k \in 1..Len(columns) : ~HasColumn(t, columns[k])

(* pd.get_dummies(df, columns=columns, prefix=columns, dtype=int) *)
get_dummies(t, columns) == passthrough(t, columns) \o encoded(t, columns, 1)

(* ---------------- 5. rename pass ---------------- *)
(* for prefix in categorical_cols[k..]: if col.startswith(prefix + '_'): ...; break *)
RECURSIVE prefix_rename(_, _)
prefix_rename(col, k) ==
    IF k > Len(categorical_cols) THEN col
    ELSE IF StartsWith(col, categorical_cols[k] \o <<"_">>)
         THEN Replace(col, categorical_cols[k] \o <<"_">>, categorical_cols[k] \o <<"=">>, 1)
         ELSE prefix_rename(col, k + 1)

(* if old in final_col: final_col = final_col.replace(old, new) *)
adjust(final_col, old, new) ==
    IF Contains(final_col, old) THEN Replace(final_col, old, new, -1) ELSE final_col

(* the adjustments without the default=yes line *)
binary_adjust_no_yes(c0) ==
    LET c1 == adjust(c0, <<"d","e","f","a","u","l","t","=","n","o">>, <<"d","e","f","a","u","l","t","=","0">>)
        c3 == adjust(c1, <<"h","o","u","s","i","n","g","=","n","o">>, <<"h","o","u","s","i","n","g","=","0">>)
        c4 == adjust(c3, <<"h","o","u","s","i","n","g","=","y","e","s">>, <<"h","o","u","s","i","n","g","=","1">>)
        c5 == adjust(c4, <<"l","o","a","n","=","n","o">>, <<"l","o","a","n","=","0">>)
        c6 == adjust(c5, <<"l","o","a","n","=","y","e","s">>, <<"l","o","a","n","=","1">>)
    IN  c6

binary_adjust(c0) ==
    LET c1 == adjust(c0, <<"d","e","f","a","u","l","t","=","n","o">>, <<"d","e","f","a","u","l","t","=","0">>)
        c2 == adjust(c1, <<"d","e","f","a","u","l","t","=","y","e","s">>, <<"d","e","f","a","u","l","t","=","1">>)
        c3 == adjust(c2, <<"h","o","u","s","i","n","g","=","n","o">>, <<"h","o","u","s","i","n","g","=","0">>)
        c4 == adjust(c3, <<"h","o","u","s","i","n","g","=","y","e","s">>, <<"h","o","u","s","i","n","g","=","1">>)
        c5 == adjust(c4, <<"l","o","a","n","=","n","o">>, <<"l","o","a","n","=","0">>)
        c6 == adjust(c5, <<"l","o","a","n","=","y","e","s">>, <<"l","o","a","n","=","1">>)
    IN  c6

(* column_mapping[col] *)
column_mapping(col) == binary_adjust(prefix_rename(col, 1))

(* df_encoded.rename(columns=column_mapping) *)
rename_columns(t) == [i \in 1..Len(t) |-> Column(column_mapping(t[i].name), t[i].vals)]

(* ---------------- 6. missing columns ---------------- *)
present_columns(t) == { ToStr(t[i].name) : i \in 1..Len(t) }

RECURSIVE missing_from(_, _)
missing_from(targets, present) ==
    IF targets = <<>> THEN <<>>
    ELSE (IF Head(targets) \in present THEN <<>> ELSE <<Head(targets)>>)
           \o missing_from(Tail(targets), present)

(* ---------------- 7. strict reindex ---------------- *)
(* reindex refuses an axis with duplicate labels (ValueError) *)
reindex_raises(t) == ~NoDuplicates(Columns(t))

(* a column selection df_renamed[present targets]: nothing is synthesized *)
RECURSIVE reindex_no_fill(_, _)
reindex_no_fill(t, targets) ==
    IF targets = <<>> THEN <<>>
    ELSE (IF Head(targets) \in present_columns(t)
          THEN <<Column(Head(targets),
                        t[CHOOSE i \in 1..Len(t) : ToStr(t[i].name) = Head(targets)].vals)>>
          ELSE <<>>)
           \o reindex_no_fill(t, Tail(targets))

(* reindex without fill_value: synthesized cells are missing values *)
reindex_fill_nan(t, targets) ==
    [j \in 1..Len(targets) |->
        IF targets[j] \in present_columns(t)
        THEN Column(targets[j],
                    t[CHOOSE i \in 1..Len(t) : ToStr(t[i].name) = targets[j]].vals)
        ELSE Column(targets[j], [i \in 1..NumRows(t) |-> NaN])]

(* df_renamed.reindex(columns=targets, fill_value=0); names become Python strings *)
reindex(t, targets) ==
    [j \in 1..Len(targets) |->
        IF targets[j] \in present_columns(t)
        THEN Column(targets[j],
                    t[CHOOSE i \in 1..Len(t) : ToStr(t[i].name) = targets[j]].vals)
        ELSE Column(targets[j], [i \in 1..NumRows(t) |-> Num(0, 1)])]

(* ---------------- the explored input files ---------------- *)
Rows == 1..NRows

DefaultVals == { <<"n","o">>, <<"y","e","s">>, <<"u","n","k","n","o","w","n">>, <<"1">>, <<"n","o","n","e">> }

(* A file with the columns of the bank-marketing data set, in its order.   *)
(* age and default vary; the other columns hold fixed, row-dependent data. *)
FullTable(ages, defaults) == <<
    Column(<<"a","g","e">>, [i \in Rows |-> Num(ages[i], 1)]),
    Column(<<"j","o","b">>, [i \in Rows |-> Str(IF i = 1 THEN <<"a","d","m","i","n",".">> ELSE <<"s","t","u","d","e","n","t">>)]),
    Column(<<"m","a","r","i","t","a","l">>, [i \in Rows |-> Str(<<"m","a","r","r","i","e","d">>)]),
    Column(<<"e","d","u","c","a","t","i","o","n">>, [i \in Rows |-> Str(<<"u","n","k","n","o","w","n">>)]),
    Column(<<"d","e","f","a","u","l","t">>, [i \in Rows |-> Str(defaults[i])]),
    Column(<<"h","o","u","s","i","n","g">>, [i \in Rows |-> Str(IF i = 1 THEN <<"y","e","s">> ELSE <<"n","o">>)]),
    Column(<<"l","o","a","n">>, [i \in Rows |-> Str(IF i = 1 THEN <<"n","o">> ELSE <<"y","e","s">>)]),
    Column(<<"c","o","n","t","a","c","t">>, [i \in Rows |-> Str(IF i = 1 THEN <<"c","e","l","l","u","l","a","r">> ELSE <<"t","e","l","e","p","h","o","n","e">>)]),
    Column(<<"m","o","n","t","h">>, [i \in Rows |-> Str(<<"m","a","y">>)]),
    Column(<<"d","a","y","_","o","f","_","w","e","e","k">>, [i \in Rows |-> Str(<<"m","o","n">>)]),
    Column(<<"d","u","r","a","t","i","o","n">>, [i \in Rows |-> Num(i, 1)]),
    Column(<<"c","a","m","p","a","i","g","n">>, [i \in Rows |-> Num(1, 1)]),
    Column(<<"p","d","a","y","s">>, [i \in Rows |-> Num(999, 1)]),
    Column(<<"p","r","e","v","i","o","u","s">>, [i \in Rows |-> Num(0, 1)]),
    Column(<<"p","o","u","t","c","o","m","e">>, [i \in Rows |-> Str(<<"n","o","n","e","x","i","s","t","e","n","t">>)]),
    Column(<<"e","m","p",".","v","a","r",".","r","a","t","e">>, [i \in Rows |-> Num(1, 1)]),
    Column(<<"c","o","n","s",".","p","r","i","c","e",".","i","d","x">>, [i \in Rows |-> Num(93, 1)]),
    Column(<<"c","o","n","s",".","c","o","n","f",".","i","d","x">>, [i \in Rows |-> Num(0 - 36, 1)]),
    Column(<<"e","u","r","i","b","o","r","3","m">>, [i \in Rows |-> Num(4, 1)]),
    Column(<<"n","r",".","e","m","p","l","o","y","e","d">>, [i \in Rows |-> Num(5191, 1)]),
    Column(<<"y">>, [i \in Rows |-> Str(IF i = 1 THEN <<"y","e","s">> ELSE IF i = 2 THEN <<"n","o">> ELSE <<"m","a","y","b","e">>)]) >>

RECURSIVE Without(_, _)
Without(t, absent) ==
    IF t = <<>> THEN <<>>
    ELSE (IF Head(t).name \in absent THEN <<>> ELSE <<Head(t)>>) \o Without(Tail(t), absent)

(* Files with every categorical column and any age cells, possibly without *)
(* the age, duration or label column.                                      *)
NumericFiles ==
    { Without(FullTable(ages, [i \in Rows |-> <<"n","o">>]), absent) :
        ages \in [Rows -> 0..MaxNum],
        absent \in { {}, {<<"a","g","e">>}, {<<"d","u","r","a","t","i","o","n">>}, {<<"y">>} } }

(* Files with every column and any default cells. *)
CategoricalFiles ==
    { FullTable([i \in Rows |-> i], defaults) : defaults \in [Rows -> DefaultVals] }

(* Files that lack any non-empty subset of the categorical columns. *)
SparseFiles ==
    { Without(FullTable([i \in Rows |-> i], [i \in Rows |-> <<"n","o">>]), absent) :
        absent \in (SUBSET Range(categorical_cols)) \ {{}} }

InputFiles == NumericFiles \cup CategoricalFiles \cup SparseFiles

(* ---------------- state ---------------- *)
VARIABLES
    entry,            \* "main": run as a script; "direct": process_data called by a caller
    fileStatus,       \* what input_path resolves to: "missing", "unreadable" or "ok"
    input,            \* the table stored in the input file
    pc,               \* position in the script
    df,               \* df
    df_encoded,       \* df_encoded
    df_renamed,       \* df_renamed
    missing_columns,  \* missing_columns
    df_final,         \* df_final
    outFile,          \* the content of output_filename; <<>> while it does not exist
    result,           \* what process_data returned
    raised,           \* the exception that left process_data, "" if none
    verdict           \* what the entry point printed last

vars == << entry, fileStatus, input, pc, df, df_encoded, df_renamed, missing_columns,
           df_final, outFile, result, raised, verdict >>

NoTable == <<>>

NoResult == [isNone |-> TRUE, header |-> ""]

Init ==
    /\ entry \in {"main", "direct"}
    /\ fileStatus \in {"missing", "unreadable", "ok"}
    /\ input \in (IF fileStatus = "ok" THEN InputFiles ELSE {NoTable})
    /\ pc = (IF entry = "main" THEN "main" ELSE "read")
    /\ df = NoTable
    /\ df_encoded = NoTable
    /\ df_renamed = NoTable
    /\ missing_columns = <<>>
    /\ df_final = NoTable
    /\ outFile = NoTable
    /\ result = NoResult
    /\ raised = ""
    /\ verdict = ""

(* ---------------- process_data ---------------- *)
(* pd.read_csv without the try/except: a missing file raises to the caller *)
ReadCsvUncaught ==
    /\ pc = "read"
    /\ IF fileStatus = "ok"
       THEN /\ df' = input
            /\ pc' = "prepare"
            /\ UNCHANGED raised
       ELSE /\ raised' = (IF fileStatus = "missing" THEN "FileNotFoundError" ELSE "PermissionError")
            /\ pc' = "raised"
            /\ UNCHANGED df
    /\ UNCHANGED << entry, fileStatus, input, df_encoded, df_renamed, missing_columns,
                    df_final, outFile, result, verdict >>

(* lines 42-46: pd.read_csv; only FileNotFoundError is caught *)
ReadCsv ==
    /\ pc = "read"
    /\ CASE fileStatus = "ok" ->
              /\ df' = input
              /\ pc' = "prepare"
              /\ UNCHANGED << result, raised >>
         [] fileStatus = "missing" ->
              /\ result' = [isNone |-> TRUE, header |-> ""]
              /\ pc' = "returned"
              /\ UNCHANGED << df, raised >>
         [] OTHER ->
              /\ raised' = "PermissionError"
              /\ pc' = "raised"
              /\ UNCHANGED << df, result >>
    /\ UNCHANGED << entry, fileStatus, input, df_encoded, df_renamed, missing_columns,
                    df_final, outFile, verdict >>

(* lines 48-52 *)
Prepare ==
    /\ pc = "prepare"
    /\ df' = prepare(df)
    /\ pc' = "normalize"
    /\ UNCHANGED << entry, fileStatus, input, df_encoded, df_renamed, missing_columns,
                    df_final, outFile, result, raised, verdict >>

(* lines 56-71 *)
Normalize ==
    /\ pc = "normalize"
    /\ df' = normalize(df, 1)
    /\ pc' = "encode"
    /\ UNCHANGED << entry, fileStatus, input, df_encoded, df_renamed, missing_columns,
                    df_final, outFile, result, raised, verdict >>

(* lines 74-79 *)
Encode ==
    /\ pc = "encode"
    /\ IF get_dummies_raises(df, categorical_cols)
       THEN /\ raised' = "KeyError"
            /\ pc' = "raised"
            /\ UNCHANGED df_encoded
       ELSE /\ df_encoded' = get_dummies(df, categorical_cols)
            /\ pc' = "rename"
            /\ UNCHANGED raised
    /\ UNCHANGED << entry, fileStatus, input, df, df_renamed, missing_columns,
                    df_final, outFile, result, verdict >>

(* lines 82-104 *)
Rename ==
    /\ pc = "rename"
    /\ df_renamed' = rename_columns(df_encoded)
    /\ pc' = "log"
    /\ UNCHANGED << entry, fileStatus, input, df, df_encoded, missing_columns,
                    df_final, outFile, result, raised, verdict >>

(* lines 108-120 *)
LogMissing ==
    /\ pc = "log"
    /\ missing_columns' = missing_from(target_columns, present_columns(df_renamed))
    /\ pc' = "reindex"
    /\ UNCHANGED << entry, fileStatus, input, df, df_encoded, df_renamed,
                    df_final, outFile, result, raised, verdict >>

(* line 124 *)
Reindex ==
    /\ pc = "reindex"
    /\ IF reindex_raises(df_renamed)
       THEN /\ raised' = "ValueError"
            /\ pc' = "raised"
            /\ UNCHANGED df_final
       ELSE /\ df_final' = reindex(df_renamed, target_columns)
            /\ pc' = "save"
            /\ UNCHANGED raised
    /\ UNCHANGED << entry, fileStatus, input, df, df_encoded, df_renamed, missing_columns,
                    outFile, result, verdict >>

(* lines 127-128 *)
Save ==
    /\ pc = "save"
    /\ outFile' = df_final
    /\ pc' = "return"
    /\ UNCHANGED << entry, fileStatus, input, df, df_encoded, df_renamed, missing_columns,
                    df_final, result, raised, verdict >>

(* line 130 *)
Return ==
    /\ pc = "return"
    /\ result' = [isNone |-> FALSE, header |-> Join(Columns(df_final), ",")]
    /\ pc' = "returned"
    /\ UNCHANGED << entry, fileStatus, input, df, df_encoded, df_renamed, missing_columns,
                    df_final, outFile, raised, verdict >>

(* ---------------- __main__ ---------------- *)
(* lines 134-138 and 148-150: os.path.exists(input_file) *)
Main ==
    /\ pc = "main"
    /\ IF fileStatus # "missing"
       THEN /\ pc' = "read"
            /\ UNCHANGED verdict
       ELSE /\ verdict' = "File not found"
            /\ pc' = "exit"
    /\ UNCHANGED << entry, fileStatus, input, df, df_encoded, df_renamed, missing_columns,
                    df_final, outFile, result, raised >>

(* lines 140-147 *)
Verify ==
    /\ pc = "returned"
    /\ entry = "main"
    /\ IF ~result.isNone /\ result.header # ""
       THEN verdict' = (IF result.header = expected_header THEN "PASSED" ELSE "FAILED")
       ELSE UNCHANGED verdict
    /\ pc' = "exit"
    /\ UNCHANGED << entry, fileStatus, input, df, df_encoded, df_renamed, missing_columns,
                    df_final, outFile, result, raised >>

Next ==
    \/ Main
    \/ ReadCsv
    \/ Prepare
    \/ Normalize
    \/ Encode
    \/ Rename
    \/ LogMissing
    \/ Reindex
    \/ Save
    \/ Return
    \/ Verify

Spec == Init /\ [][Next]_vars

(* ---------------- properties ---------------- *)
(* process_data returned a header *)
Returned == pc \in {"returned", "exit"} /\ ~result.isNone

(* the normalisation loop has run on df *)
Normalized == df # NoTable /\ pc \notin {"prepare", "normalize"}

BinaryCols == { <<"d","e","f","a","u","l","t">>, <<"h","o","u","s","i","n","g">>, <<"l","o","a","n">> }

(* the string cells of column c of table t *)
Observed(t, c) == { Col(t, c).vals[i].s : i \in { j \in 1..NumRows(t) : Col(t, c).vals[j].k = "str" } }

(* C1: whenever process_data returns a header, the output table's columns,  *)
(* the columns of the written file and the returned comma-joined header are *)
(* the target schema, name for name and in order, whatever the input held.  *)
C1_OutputIsTargetSchema ==
    Returned =>
        /\ Columns(df_final) = target_columns
        /\ Columns(outFile) = target_columns
        /\ result.header = Join(target_columns, ",")

C1_Witness == Returned /\ ~HasColumn(input, <<"a","g","e">>) /\ Len(missing_columns) > 0

(* C2 as stated: the target schema is a fixed sequence of exactly 62         *)
(* distinct names, and every output table has exactly those columns.         *)
C2_SchemaHas62Names ==
    df_final # NoTable =>
        /\ Len(target_columns) = 62
        /\ NoDuplicates(target_columns)
        /\ Len(df_final) = 62
        /\ Columns(df_final) = target_columns

(* C2 amended: the target schema is a fixed sequence of exactly 63 distinct  *)
(* names, and every output table has exactly those 63 columns, whatever the  *)
(* input held.                                                               *)
C2_SchemaHas63Names ==
    /\ Len(target_columns) = 63
    /\ NoDuplicates(target_columns)
    /\ (df_final # NoTable => Len(df_final) = 63 /\ NoDuplicates(Columns(df_final)))
    /\ (df_final # NoTable => Columns(df_final) = target_columns)

C2_Witness == df_final # NoTable /\ pc = "returned" /\ ~HasColumn(input, <<"y">>)

(* C3: when the file lacks some of the categorical columns, process_data     *)
(* raises no error, completes and returns the header.                        *)
C3_AbsentCategoricalSkipped ==
    (fileStatus = "ok" /\ \E k \in 1..Len(categorical_cols) : ~HasColumn(input, categorical_cols[k]))
        => /\ raised = ""
           /\ (pc \in {"returned", "exit"} => ~result.isNone)

(* C4: after the rename pass, every value v observed in a categorical column *)
(* c, other than "no"/"yes" in default, housing and loan, has an indicator   *)
(* column named exactly c=v.                                                 *)
C4_IndicatorNamedByValue ==
    df_renamed # NoTable =>
        \A k \in 1..Len(categorical_cols) :
            \A v \in Observed(df, categorical_cols[k]) :
                ~(categorical_cols[k] \in BinaryCols /\ v \in { <<"n","o">>, <<"y","e","s">> })
                    => HasColumn(df_renamed, categorical_cols[k] \o <<"=">> \o v)

(* C5: for default, housing and loan, a row whose raw value is "yes" has 1   *)
(* in a column named c=1 and a row whose raw value is "no" has 1 in a column *)
(* named c=0, in the renamed table and in the output table once produced,    *)
(* and the renamed table has no column named c=yes or c=no.                  *)
C5_BinaryColumns ==
    df_renamed # NoTable =>
        \A c \in BinaryCols :
            /\ ~HasColumn(df_renamed, c \o <<"=","y","e","s">>)
            /\ ~HasColumn(df_renamed, c \o <<"=","n","o">>)
            /\ \A i \in 1..NumRows(df) :
                 /\ Col(df, c).vals[i] = Str(<<"y","e","s">>) =>
                      /\ \E j \in 1..Len(df_renamed) :
                           df_renamed[j].name = c \o <<"=","1">> /\ df_renamed[j].vals[i] = Num(1, 1)
                      /\ df_final # NoTable =>
                           \E j \in 1..Len(df_final) :
                             df_final[j].name = ToStr(c \o <<"=","1">>) /\ df_final[j].vals[i] = Num(1, 1)
                 /\ Col(df, c).vals[i] = Str(<<"n","o">>) =>
                      /\ \E j \in 1..Len(df_renamed) :
                           df_renamed[j].name = c \o <<"=","0">> /\ df_renamed[j].vals[i] = Num(1, 1)
                      /\ df_final # NoTable =>
                           \E j \in 1..Len(df_final) :
                             df_final[j].name = ToStr(c \o <<"=","0">>) /\ df_final[j].vals[i] = Num(1, 1)

C5_Witness ==
    /\ df_final # NoTable
    /\ \E i \in 1..NumRows(df) : Col(df, <<"d","e","f","a","u","l","t">>).vals[i] = Str(<<"y","e","s">>)
    /\ \E i \in 1..NumRows(df) : Col(df, <<"d","e","f","a","u","l","t">>).vals[i] = Str(<<"n","o">>)

(* C6: in the output table, a target column absent from the renamed table    *)
(* holds 0 in every row, and a target column present in the renamed table    *)
(* holds that column's cells unchanged.                                      *)
C6_ReindexFrame ==
    df_final # NoTable =>
        /\ Len(df_final) = Len(target_columns)
        /\ \A j \in 1..Len(target_columns) :
             /\ df_final[j].name = target_columns[j]
             /\ IF \E i \in 1..Len(df_renamed) : ToStr(df_renamed[i].name) = target_columns[j]
                THEN \A i \in 1..Len(df_renamed) :
                        ToStr(df_renamed[i].name) = target_columns[j]
                            => df_final[j].vals = df_renamed[i].vals
                ELSE /\ Len(df_final[j].vals) = NumRows(df_renamed)
                     /\ \A r \in 1..NumRows(df_renamed) : df_final[j].vals[r] = Num(0, 1)

C6_Witness ==
    /\ df_final # NoTable
    /\ ~HasColumn(input, <<"d","u","r","a","t","i","o","n">>)
    /\ \E j \in 1..Len(df_final) :
         df_final[j].name = "age" /\ \E r \in 1..NumRows(df_renamed) : df_final[j].vals[r].n # 0

(* C7: once the normalisation loop has run, every cell of a numeric column   *)
(* of the file is (v - min)/(max - min) when max # min and 0 when max = min; *)
(* its denominator is positive, it lies in [0,1], the minimum is mapped to 0 *)
(* and, when max # min, the maximum to 1.                                    *)
C7_MinMaxRange ==
    Normalized =>
        \A k \in 1..Len(numeric_cols) :
            HasColumn(input, numeric_cols[k]) =>
                LET raw == Col(input, numeric_cols[k]).vals
                    out == Col(df, numeric_cols[k]).vals
                IN  \E lo, hi \in { raw[i].n : i \in 1..Len(raw) } :
                        /\ \A i \in 1..Len(raw) : lo <= raw[i].n /\ raw[i].n <= hi
                        /\ Len(out) = Len(raw)
                        /\ \A i \in 1..Len(raw) :
                             /\ out[i].k = "num"
                             /\ out[i].d > 0
                             /\ 0 <= out[i].n /\ out[i].n <= out[i].d
                             /\ hi # lo => out[i].n = raw[i].n - lo /\ out[i].d = hi - lo
                             /\ hi = lo => out[i].n = 0
                             /\ raw[i].n = lo => out[i].n = 0
                             /\ (hi # lo /\ raw[i].n = hi) => out[i].n = out[i].d

C7_Witness ==
    /\ pc = "encode"
    /\ HasColumn(input, <<"a","g","e">>)
    /\ \E i, j \in 1..NumRows(input) :
         Col(input, <<"a","g","e">>).vals[i].n < Col(input, <<"a","g","e">>).vals[j].n
    /\ Col(df, <<"c","a","m","p","a","i","g","n">>).vals[1] = Num(0, 1)

(* the file is written only once df, df_encoded, df_renamed and df_final exist *)
WrittenLast ==
    outFile # NoTable =>
        /\ df # NoTable /\ df_encoded # NoTable /\ df_renamed # NoTable
        /\ outFile = df_final
        /\ pc \in {"return", "returned", "exit"}

(* C8 as stated: when the path is not a readable file, process_data returns  *)
(* None without raising and writes nothing; the file is written last.        *)
C8_UnreadableHalts ==
    /\ fileStatus # "ok" =>
         /\ raised = ""
         /\ outFile = NoTable
         /\ result.isNone
    /\ WrittenLast

(* C8 amended: when the path does not exist (read_csv fails with             *)
(* FileNotFoundError), process_data loads nothing, returns None without      *)
(* raising and writes nothing; the file is written last.                     *)
C8_MissingHalts ==
    /\ fileStatus = "missing" =>
         /\ raised = ""
         /\ outFile = NoTable
         /\ result.isNone
         /\ df = NoTable
         /\ pc \in {"main", "read", "returned", "exit"}
    /\ WrittenLast

C8_Witness == fileStatus = "missing" /\ entry = "direct" /\ pc = "returned" /\ result.isNone

(* C9: the comma-join of target_columns is the expected_header literal, so   *)
(* the entry point never prints FAILED and prints PASSED whenever            *)
(* process_data returned a header.                                           *)
C9_HeaderVerified ==
    /\ Join(target_columns, ",") = expected_header
    /\ verdict # "FAILED"
    /\ (entry = "main" /\ pc = "exit" /\ ~result.isNone) => verdict = "PASSED"

C9_Witness == entry = "main" /\ pc = "exit" /\ verdict = "PASSED"

(* C10: the rename pass maps distinct columns of the encoded table to        *)
(* distinct names, so the renamed table has no duplicate column names.       *)
C10_RenameInjective ==
    df_renamed # NoTable =>
        /\ \A i, j \in 1..Len(df_encoded) :
             df_encoded[i].name # df_encoded[j].name
                => column_mapping(df_encoded[i].name) # column_mapping(df_encoded[j].name)
        /\ NoDuplicates(Columns(df_renamed))

====
